---- MODULE Spec2Model ----
(***************************************************************************)
(* The order book of src/trade_book/src/main.rs: two Vec<Order>, one per   *)
(* OrderType, and the u32 counter next_id; add_order is the only mutating  *)
(* operation, the other methods take &self.                                *)
(*                                                                         *)
(* Numbers.  next_id and Order.id are u32 in the source.  The model keeps  *)
(* the arithmetic of a fixed-width unsigned integer and scales the width   *)
(* from 32 bits to IdBits bits, so that the largest value of the counter   *)
(* is reached after a few add_order calls.  `self.next_id += 1` at the     *)
(* largest value depends on the build: with overflow checks (the dev       *)
(* profile) it panics, without them (the release profile) it wraps to 0.   *)
(* The build is chosen once, in Init.                                      *)
(* amount and price are f64; the model draws them from small integers,     *)
(* whose products and sums f64 represents exactly.                         *)
(*                                                                         *)
(* The module also holds the wallets of src/crypto_wallet/src/main.rs      *)
(* (WalletSpec) and the generator of src/fibonacci/src/main.rs (FibSpec).  *)
(* They are separate programs: each specification runs one of them and     *)
(* leaves the variables of the others as they are.  Wallet.balance is u64; *)
(* its width is scaled to BalBits bits like the width of the ids.          *)
(***************************************************************************)
EXTENDS Integers, Sequences, FiniteSets

\* width of next_id / Order.id in the model (u32 in the source, scaled)
IdBits == 2

\* at most this many add_order calls in a run
MaxOrders == 5

\* one more than the largest value of the id type (2^IdBits)
RECURSIVE Pow2(_)
Pow2(n) == IF n = 0 THEN 1 ELSE 2 * Pow2(n - 1)

IdModulus == Pow2(IdBits)

\* u32::MAX at the model's width
IdMax == IdModulus - 1

Ids == 0 .. IdMax

\* enum OrderType
Buy == "Buy"

Sell == "Sell"

OrderType == {Buy, Sell}

\* the (amount, price) pairs the callers pass: f64 values that are exactly
\* representable, a negative amount included (add_order validates nothing)
OrderArgs == {<<2, 3>>, <<-1, 5>>}

VARIABLES
    buy_orders,       \* OrderBook.buy_orders : Vec<Order>
    sell_orders,      \* OrderBook.sell_orders : Vec<Order>
    next_id,          \* OrderBook.next_id : u32
    overflow_checks,  \* the build: TRUE = integer overflow panics, FALSE = it wraps
    panicked,         \* the process has panicked (and ended)
    calls,            \* history: the add_order calls made, in call order, with the id each used
    last_call,        \* the operation called last and its argument
    result,           \* what the operation called last returned
    repeated,         \* history: the call before the last one was the same operation with the same argument
    balance,          \* Wallet.balance of each wallet : u64
    balance_before,   \* history: the balances when the last wallet call was made
    wallet_call,      \* the wallet function called last and its arguments
    wallet_result,    \* what it returned: "Ok", "Err", or "Panic"
    fib               \* the fibonacci program: num, a, b, i, its output and its position

book == <<buy_orders, sell_orders, next_id>>

\* the variables of the wallet program
walletVars == <<balance, balance_before, wallet_call, wallet_result>>

\* the variables of the order book program
bookVars == <<buy_orders, sell_orders, next_id, calls, last_call, result, repeated>>

vars == <<buy_orders, sell_orders, next_id, overflow_checks, panicked, calls, last_call, result,
          repeated, balance, balance_before, wallet_call, wallet_result, fib>>

\* struct Order
Order(id, order_type, amount, price) ==
    [id |-> id, order_type |-> order_type, amount |-> amount, price |-> price]

\* Option<&Order>
None == [tag |-> "None"]

Some(order) == [tag |-> "Some", order |-> order]

\* the value of `()`
Unit == [tag |-> "Unit"]

----------------------------------------------------------------------------
\* The &self methods, as functions of the book.

\* total_orders counting one vector only
total_orders_BuyOnly == Len(buy_orders)

\* fn total_orders(&self) -> usize
total_orders == Len(buy_orders) + Len(sell_orders)

\* fn get_orders_by_type(&self, order_type) -> &Vec<Order>
get_orders_by_type(order_type) ==
    IF order_type = Buy THEN buy_orders ELSE sell_orders

\* `for order in orders { if order.id == id { return Some(order) } }`, from position i on
RECURSIVE FirstWithId(_, _, _)
FirstWithId(orders, id, i) ==
    IF i > Len(orders) THEN None
    ELSE IF orders[i].id = id THEN Some(orders[i])
    ELSE FirstWithId(orders, id, i + 1)

\* the loop of find_order_by_id with `order.id <= id` for `order.id == id`
RECURSIVE FirstWithIdAtMost(_, _, _)
FirstWithIdAtMost(orders, id, i) ==
    IF i > Len(orders) THEN None
    ELSE IF orders[i].id <= id THEN Some(orders[i])
    ELSE FirstWithIdAtMost(orders, id, i + 1)

\* find_order_by_id with the comparison slipped to <=
find_order_by_id_AtMost(id) ==
    LET inBuy == FirstWithIdAtMost(buy_orders, id, 1)
    IN  IF inBuy # None THEN inBuy ELSE FirstWithIdAtMost(sell_orders, id, 1)

\* fn find_order_by_id(&self, id) -> Option<&Order>: the buy side first, then the sell side
find_order_by_id(id) ==
    LET inBuy == FirstWithId(buy_orders, id, 1)
    IN  IF inBuy # None THEN inBuy ELSE FirstWithId(sell_orders, id, 1)

\* Iterator::sum over orders[i..] of amount * price, added to acc in iteration order
RECURSIVE SumValues(_, _, _)
SumValues(orders, i, acc) ==
    IF i > Len(orders) THEN acc
    ELSE SumValues(orders, i + 1, acc + orders[i].amount * orders[i].price)

\* get_total_value_by_type summing both vectors, whatever the side asked for
get_total_value_by_type_BothSides(order_type) ==
    SumValues(sell_orders, 1, SumValues(buy_orders, 1, 0))

\* fn get_total_value_by_type(&self, order_type) -> f64
get_total_value_by_type(order_type) ==
    SumValues(get_orders_by_type(order_type), 1, 0)

----------------------------------------------------------------------------
\* The wallets (src/crypto_wallet/src/main.rs).

\* width of Wallet.balance in the model (u64 in the source, scaled)
BalBits == 3

BalModulus == Pow2(BalBits)

\* u64::MAX at the model's width
BalMax == BalModulus - 1

\* the values of u64
Balances == 0 .. BalMax

\* wallet1 and wallet2 of main
Wallets == {1, 2}

\* no wallet program is running
WalletNotStarted ==
    /\ balance = [w \in Wallets |-> 0]
    /\ balance_before = [w \in Wallets |-> 0]
    /\ wallet_call = [op |-> "none"]
    /\ wallet_result = "none"

----------------------------------------------------------------------------
\* The fibonacci program (src/fibonacci/src/main.rs).

\* no fibonacci program is running
FibNotStarted == fib = [pc |-> "none"]

----------------------------------------------------------------------------
\* OrderBook::new(), before any call; the build is either profile
Init ==
    /\ buy_orders = <<>>
    /\ sell_orders = <<>>
    /\ next_id = 1
    /\ overflow_checks \in BOOLEAN
    /\ panicked = FALSE
    /\ calls = <<>>
    /\ last_call = [op |-> "new"]
    /\ result = Unit
    /\ repeated = FALSE
    /\ WalletNotStarted
    /\ FibNotStarted

\* Vec::insert(0, order) for Vec::push(order)
PushOrder_AtFront(order_type, order) ==
    /\ buy_orders' = IF order_type = Buy THEN <<order>> \o buy_orders ELSE buy_orders
    /\ sell_orders' = IF order_type = Sell THEN <<order>> \o sell_orders ELSE sell_orders

\* the match of add_order with its two arms exchanged
PushOrder_Swapped(order_type, order) ==
    /\ buy_orders' = IF order_type = Sell THEN Append(buy_orders, order) ELSE buy_orders
    /\ sell_orders' = IF order_type = Buy THEN Append(sell_orders, order) ELSE sell_orders

\* Vec::push on the vector of order_type
PushOrder(order_type, order) ==
    /\ buy_orders' = IF order_type = Buy THEN Append(buy_orders, order) ELSE buy_orders
    /\ sell_orders' = IF order_type = Sell THEN Append(sell_orders, order) ELSE sell_orders

\* `self.next_id += 1` where the sum fits
Increment(id) == id + 1

\* fn add_order(&mut self, order_type, amount, price)
add_order(order_type, amount, price) ==
    /\ ~panicked
    /\ Len(calls) < MaxOrders
    /\ LET order == Order(next_id, order_type, amount, price)
       IN  /\ PushOrder(order_type, order)
           /\ calls' = Append(calls, order)
    /\ last_call' = [op |-> "add_order", order_type |-> order_type,
                     amount |-> amount, price |-> price]
    /\ IF next_id < IdMax
       THEN /\ next_id' = Increment(next_id)
            /\ panicked' = FALSE
            /\ result' = Unit
       ELSE IF overflow_checks
       THEN \* "attempt to add with overflow": the store does not happen
            /\ next_id' = next_id
            /\ panicked' = TRUE
            /\ result' = [tag |-> "Panic"]
       ELSE /\ next_id' = (next_id + 1) % IdModulus
            /\ panicked' = FALSE
            /\ result' = Unit
    /\ repeated' = FALSE
    /\ UNCHANGED <<overflow_checks, walletVars, fib>>

\* a call of total_orders
Call_total_orders ==
    /\ ~panicked
    /\ last_call' = [op |-> "total_orders"]
    /\ repeated' = (last_call = [op |-> "total_orders"])
    /\ result' = total_orders
    /\ UNCHANGED <<book, overflow_checks, panicked, calls, walletVars, fib>>

\* a call of get_orders_by_type
Call_get_orders_by_type(order_type) ==
    /\ ~panicked
    /\ last_call' = [op |-> "get_orders_by_type", order_type |-> order_type]
    /\ repeated' = (last_call = [op |-> "get_orders_by_type", order_type |-> order_type])
    /\ result' = get_orders_by_type(order_type)
    /\ UNCHANGED <<book, overflow_checks, panicked, calls, walletVars, fib>>

\* a call of find_order_by_id
Call_find_order_by_id(id) ==
    /\ ~panicked
    /\ last_call' = [op |-> "find_order_by_id", id |-> id]
    /\ repeated' = (last_call = [op |-> "find_order_by_id", id |-> id])
    /\ result' = find_order_by_id(id)
    /\ UNCHANGED <<book, overflow_checks, panicked, calls, walletVars, fib>>

\* a call of get_total_value_by_type that consumes what it sums (drain(..) for iter())
Call_get_total_value_by_type_Drain(order_type) ==
    /\ ~panicked
    /\ last_call' = [op |-> "get_total_value_by_type", order_type |-> order_type]
    /\ repeated' = (last_call = [op |-> "get_total_value_by_type", order_type |-> order_type])
    /\ result' = get_total_value_by_type(order_type)
    /\ buy_orders' = IF order_type = Buy THEN <<>> ELSE buy_orders
    /\ sell_orders' = IF order_type = Sell THEN <<>> ELSE sell_orders
    /\ UNCHANGED <<next_id, overflow_checks, panicked, calls, walletVars, fib>>

\* a call of get_total_value_by_type
Call_get_total_value_by_type(order_type) ==
    /\ ~panicked
    /\ last_call' = [op |-> "get_total_value_by_type", order_type |-> order_type]
    /\ repeated' = (last_call = [op |-> "get_total_value_by_type", order_type |-> order_type])
    /\ result' = get_total_value_by_type(order_type)
    /\ UNCHANGED <<book, overflow_checks, panicked, calls, walletVars, fib>>

----------------------------------------------------------------------------
\* Helpers of the properties.

Range(seq) == {seq[i] : i \in 1 .. Len(seq)}

\* the ids add_order has given out so far
AssignedIds == {calls[k].id : k \in 1 .. Len(calls)}

\* the other side
Other(order_type) == IF order_type = Buy THEN Sell ELSE Buy

\* how many add_order calls were made with this side
CallsWith(order_type) == Cardinality({k \in 1 .. Len(calls) : calls[k].order_type = order_type})

QueryOps == {"total_orders", "get_orders_by_type", "find_order_by_id", "get_total_value_by_type"}

----------------------------------------------------------------------------
\* C1: the ids given to the add_order calls made so far are pairwise
\* distinct, strictly increasing in call order, and the first of them is 1.
C1_IdsIncreaseFromOne ==
    /\ Len(calls) > 0 => calls[1].id = 1
    /\ \A i, j \in 1 .. Len(calls) : i < j => calls[i].id < calls[j].id

\* C2: for every add_order call made so far, find_order_by_id of the id that
\* call used returns an order with exactly that call's side, amount and price.
C2_FindReturnsSubmitted ==
    \A k \in 1 .. Len(calls) :
        LET found == find_order_by_id(calls[k].id)
        IN  /\ found.tag = "Some"
            /\ found.order.order_type = calls[k].order_type
            /\ found.order.amount = calls[k].amount
            /\ found.order.price = calls[k].price

\* C3: find_order_by_id of an id no add_order call has used (0 and the ids at
\* or above the counter among them) returns None, and never an order.
C3_FindUnassignedIsNone ==
    \A id \in Ids : id \notin AssignedIds => find_order_by_id(id) = None

\* C3's case: orders are stored, find_order_by_id was called with an id no
\* call has used, and it returned None.
C3_Witness ==
    /\ total_orders >= 2
    /\ last_call.op = "find_order_by_id"
    /\ last_call.id \notin AssignedIds
    /\ last_call.id >= next_id
    /\ result = None

\* C4: every add_order call completes (no panic), and the id it uses is
\* strictly greater than the id of every earlier call, the call made with
\* the counter at its largest value included.
C4_SubmitTotalAndIncreasing ==
    /\ ~panicked
    /\ \A k \in 2 .. Len(calls) : \A i \in 1 .. (k - 1) : calls[i].id < calls[k].id

\* C5: every order is stored on exactly one side, the side it was submitted
\* with: what get_orders_by_type(t) returns holds only orders of type t, every
\* submitted order is in the vector of its side and not in the other, and the
\* vector of a side holds as many orders as calls were made with that side.
C5_SidePartition ==
    /\ \A t \in OrderType :
        /\ \A i \in 1 .. Len(get_orders_by_type(t)) : get_orders_by_type(t)[i].order_type = t
        /\ Len(get_orders_by_type(t)) = CallsWith(t)
    /\ \A k \in 1 .. Len(calls) :
        /\ calls[k] \in Range(get_orders_by_type(calls[k].order_type))
        /\ calls[k] \notin Range(get_orders_by_type(Other(calls[k].order_type)))

\* C5's case: both sides hold orders and one side was just enumerated.
C5_Witness ==
    /\ Len(buy_orders) >= 1
    /\ Len(sell_orders) >= 2
    /\ last_call.op = "get_orders_by_type"
    /\ result = get_orders_by_type(last_call.order_type)

\* seq is an initial part of longer
IsPrefix(seq, longer) ==
    /\ Len(seq) <= Len(longer)
    /\ \A i \in 1 .. Len(seq) : longer[i] = seq[i]

\* the sum of amount * price over the first k add_order calls that were made
\* with this side, added in call order
RECURSIVE NotionalOfCalls(_, _)
NotionalOfCalls(order_type, k) ==
    IF k = 0 THEN 0
    ELSE NotionalOfCalls(order_type, k - 1)
         + (IF calls[k].order_type = order_type THEN calls[k].amount * calls[k].price ELSE 0)

\* C6: the book is append-only.  In every step each vector keeps every order
\* it holds, unchanged and at its position; a step that is not an add_order
\* call changes neither vector nor the counter; an add_order call appends one
\* order, made of the counter's value and the call's arguments, to the vector
\* of the side it was called with and leaves the other vector as it is.
C6_AppendOnly ==
    [][ /\ IsPrefix(buy_orders, buy_orders')
        /\ IsPrefix(sell_orders, sell_orders')
        /\ (calls' = calls => book' = book)
        /\ (calls' # calls =>
               /\ last_call'.op = "add_order"
               /\ \E t \in OrderType :
                      /\ t = last_call'.order_type
                      /\ get_orders_by_type(t)' =
                             Append(get_orders_by_type(t),
                                    Order(next_id, t, last_call'.amount, last_call'.price))
                      /\ get_orders_by_type(Other(t))' = get_orders_by_type(Other(t)))
      ]_vars

\* C6's case: add_order has appended to a vector that already held orders,
\* with orders on the other side too.
C6_Witness ==
    /\ last_call.op = "add_order"
    /\ Len(get_orders_by_type(last_call.order_type)) >= 2
    /\ Len(get_orders_by_type(Other(last_call.order_type))) >= 1

\* C7: get_orders_by_type returns the orders of a side in submission order,
\* the order submitted earlier being the one with the smaller id: of two
\* orders of the returned vector, the one with the smaller id comes first.
C7_SideInIdOrder ==
    \A t \in OrderType :
        \A i, j \in 1 .. Len(get_orders_by_type(t)) :
            i < j => get_orders_by_type(t)[i].id < get_orders_by_type(t)[j].id

\* The vector of each side is the sequence of the add_order calls made with
\* that side, in call order (the part of C7 that does not speak of ids).
SideInSubmissionOrder ==
    \A t \in OrderType :
        get_orders_by_type(t) = SelectSeq(calls, LAMBDA o : o.order_type = t)

\* C8: total_orders is the sum of the lengths of the two vectors
\* get_orders_by_type returns, and it is the number of add_order calls made.
C8_CountIsSumAndCalls ==
    /\ total_orders = Len(get_orders_by_type(Buy)) + Len(get_orders_by_type(Sell))
    /\ total_orders = Len(calls)

\* C8's case: total_orders was called on a book with orders on both sides
\* and returned their number.
C8_Witness ==
    /\ last_call.op = "total_orders"
    /\ Len(buy_orders) >= 1
    /\ Len(sell_orders) >= 1
    /\ result = Len(calls)
    /\ result >= 3

\* C9: get_total_value_by_type(t) is the sum of amount * price over the
\* orders submitted with side t, in submission order; orders of the other
\* side add nothing; on a side without orders it is 0.
C9_TotalValueOfSide ==
    \A t \in OrderType :
        /\ get_total_value_by_type(t) = NotionalOfCalls(t, Len(calls))
        /\ (Len(get_orders_by_type(t)) = 0 => get_total_value_by_type(t) = 0)

\* C9's case: get_total_value_by_type was called for a side holding two or
\* more orders while the other side holds orders of nonzero value.
C9_Witness ==
    /\ last_call.op = "get_total_value_by_type"
    /\ Len(get_orders_by_type(last_call.order_type)) >= 2
    /\ get_total_value_by_type(Other(last_call.order_type)) # 0
    /\ result = NotionalOfCalls(last_call.order_type, Len(calls))

\* C10: a query (total_orders, get_orders_by_type, find_order_by_id,
\* get_total_value_by_type) leaves both vectors and the counter unchanged,
\* and a query called again with the same argument right after itself
\* returns the same result.
C10_QueriesReadOnly ==
    [][ last_call'.op \in QueryOps =>
            /\ book' = book
            /\ (last_call' = last_call => result' = result)
      ]_vars

\* C10's case: the same query with the same argument was called twice in a
\* row on a book that holds orders.
C10_Witness ==
    /\ repeated
    /\ last_call.op \in QueryOps
    /\ total_orders >= 2

\* C13: in every state of a running order book the counter is 1 + the number
\* of stored orders, and the ids of the stored orders (both vectors together)
\* are exactly 1 .. counter - 1: none at or above the counter, none missing.
C13_CounterIsCountPlusOne ==
    ~panicked =>
        /\ next_id = 1 + total_orders
        /\ {o.id : o \in Range(buy_orders) \cup Range(sell_orders)} = 1 .. (next_id - 1)

\* no order book program is running
BookNotStarted ==
    /\ buy_orders = <<>>
    /\ sell_orders = <<>>
    /\ next_id = 1
    /\ calls = <<>>
    /\ last_call = [op |-> "none"]
    /\ result = Unit
    /\ repeated = FALSE

\* Wallet::new_wallet(balance) for wallet1 and wallet2, with any u64 each
WalletInit ==
    /\ balance \in [Wallets -> Balances]
    /\ balance_before = balance
    /\ wallet_call = [op |-> "new_wallet"]
    /\ wallet_result = "Ok"
    /\ overflow_checks \in BOOLEAN
    /\ panicked = FALSE
    /\ BookNotStarted
    /\ FibNotStarted

\* the guard of send_money and transfer_between with the comparison inverted
InsufficientBalance_Inverted(have, need) == have > need

\* `if wallet.balance < amount`
InsufficientBalance(have, need) == have < need

\* the value `x += amount` stores when it does not panic (u64, wrapping)
Credited(bal, amount) == (bal + amount) % BalModulus

\* the value `x -= amount` stores when it does not panic (u64, wrapping)
Debited(bal, amount) == (bal - amount + BalModulus) % BalModulus

\* fn send_money(wallet: &mut Wallet, amount: u64) -> Result<(), String>
send_money(w, amount) ==
    /\ ~panicked
    /\ wallet_call' = [op |-> "send_money", wallet |-> w, amount |-> amount]
    /\ balance_before' = balance
    /\ IF InsufficientBalance(balance[w], amount)
       THEN /\ wallet_result' = "Err"
            /\ UNCHANGED <<balance, panicked>>
       ELSE IF balance[w] < amount /\ overflow_checks
       THEN \* "attempt to subtract with overflow"
            /\ wallet_result' = "Panic"
            /\ panicked' = TRUE
            /\ UNCHANGED balance
       ELSE /\ balance' = [balance EXCEPT ![w] = Debited(balance[w], amount)]
            /\ wallet_result' = "Ok"
            /\ UNCHANGED panicked
    /\ UNCHANGED <<overflow_checks, bookVars, fib>>

\* fn transfer_between(from: &mut Wallet, to: &mut Wallet, amount: u64) -> Result<(), String>
\* (two &mut borrows: from and to are different wallets)
transfer_between(from, to, amount) ==
    /\ ~panicked
    /\ from # to
    /\ wallet_call' = [op |-> "transfer_between", from |-> from, to |-> to, amount |-> amount]
    /\ balance_before' = balance
    /\ IF InsufficientBalance(balance[from], amount)
       THEN /\ wallet_result' = "Err"
            /\ UNCHANGED <<balance, panicked>>
       ELSE IF balance[from] < amount /\ overflow_checks
       THEN \* "attempt to subtract with overflow"
            /\ wallet_result' = "Panic"
            /\ panicked' = TRUE
            /\ UNCHANGED balance
       ELSE IF balance[to] + amount > BalMax /\ overflow_checks
       THEN \* "attempt to add with overflow", after `from.balance -= amount`
            /\ balance' = [balance EXCEPT ![from] = Debited(balance[from], amount)]
            /\ wallet_result' = "Panic"
            /\ panicked' = TRUE
       ELSE /\ balance' = [balance EXCEPT ![from] = Debited(balance[from], amount),
                                          ![to] = Credited(balance[to], amount)]
            /\ wallet_result' = "Ok"
            /\ UNCHANGED panicked
    /\ UNCHANGED <<overflow_checks, bookVars, fib>>

WalletNext ==
    \/ \E w \in Wallets, amount \in Balances : send_money(w, amount)
    \/ \E from \in Wallets, to \in Wallets, amount \in Balances : transfer_between(from, to, amount)

WalletSpec == WalletInit /\ [][WalletNext]_vars

----------------------------------------------------------------------------
\* C11: send_money with an amount above the wallet's balance returns Err and
\* leaves the balance as it was; with an amount within the balance it returns
\* Ok and takes exactly the amount.  So no send_money call panics, makes the
\* balance underflow or raises it, and no other wallet changes.
C11_SendMoneyGuarded ==
    wallet_call.op = "send_money" =>
        LET w == wallet_call.wallet
            amount == wallet_call.amount
        IN  /\ wallet_result # "Panic"
            /\ amount > balance_before[w] =>
                   wallet_result = "Err" /\ balance = balance_before
            /\ amount <= balance_before[w] =>
                   wallet_result = "Ok" /\ balance[w] = balance_before[w] - amount
            /\ balance[w] <= balance_before[w]
            /\ balance[w] >= 0
            /\ \A v \in Wallets \ {w} : balance[v] = balance_before[v]

\* C11's case: send_money was refused for an amount above a balance that is
\* not zero.
C11_Witness ==
    /\ wallet_call.op = "send_money"
    /\ wallet_call.amount > balance_before[wallet_call.wallet]
    /\ balance_before[wallet_call.wallet] > 0
    /\ wallet_result = "Err"
    /\ balance = balance_before

\* C12: transfer_between with from.balance >= amount returns Ok, takes exactly
\* amount from `from` and adds exactly amount to `to`, so the sum of the two
\* balances is kept; with from.balance < amount it returns Err and changes
\* neither balance.  No call leaves `from` debited without `to` credited.
C12_TransferConserves ==
    wallet_call.op = "transfer_between" =>
        LET from == wallet_call.from
            to == wallet_call.to
            amount == wallet_call.amount
        IN  /\ balance_before[from] >= amount =>
                   /\ wallet_result = "Ok"
                   /\ balance[from] = balance_before[from] - amount
                   /\ balance[to] = balance_before[to] + amount
                   /\ balance[from] + balance[to] = balance_before[from] + balance_before[to]
            /\ balance_before[from] < amount =>
                   wallet_result = "Err" /\ balance = balance_before
            /\ balance[from] < balance_before[from] => balance[to] > balance_before[to]

\* the largest number of terms main accepts (`Ok(n) if n <= 45`)
MaxTerms == 45

\* i32::MAX: a and b of generate_fibonacci are i32 (integer literals, no other type given)
I32Max == 2147483647

I32Min == -I32Max - 1

\* the numbers a parsed input line is drawn from: 0 .. MaxInput
MaxInput == 47

\* the guard of main with the limit off by one
InputAccepted_OneMore(n) == n <= MaxTerms + 1

\* `Ok(n) if n <= 45 => n`
InputAccepted(n) == n <= MaxTerms

\* x + y is outside i32
AddOverflows(x, y) ==
    \/ x > 0 /\ y > 0 /\ y > I32Max - x
    \/ x < 0 /\ y < 0 /\ y < I32Min - x

\* x + y as i32, wrapping (the value a build without overflow checks stores)
WrappingAdd(x, y) ==
    IF x > 0 /\ y > 0 /\ y > I32Max - x THEN (x - I32Max - 1) + (y - I32Max - 1)
    ELSE IF x < 0 /\ y < 0 /\ y < I32Min - x THEN (x + I32Max + 1) + (y + I32Max + 1)
    ELSE x + y

\* the program before it reads its input line
FibStart ==
    [pc |-> "start", parsed |-> "none", input |-> 0, num |-> 0, a |-> 0, b |-> 0, i |-> 0,
     output |-> <<>>, overflowed |-> FALSE]

FibInit ==
    /\ fib = FibStart
    /\ overflow_checks \in BOOLEAN
    /\ panicked = FALSE
    /\ BookNotStarted
    /\ WalletNotStarted

\* main: the line parses to the u32 n; generate_fibonacci starts if n is accepted
ReadNumber(n) ==
    /\ fib.pc = "start"
    /\ fib' = IF InputAccepted(n)
              THEN [fib EXCEPT !.pc = "loop", !.parsed = "Ok", !.input = n,
                               !.num = n, !.a = 0, !.b = 1, !.i = 0]
              ELSE [fib EXCEPT !.pc = "rejected", !.parsed = "Ok", !.input = n]
    /\ UNCHANGED <<overflow_checks, panicked, bookVars, walletVars>>

\* main: read_line fails or the line does not parse to a u32
ReadInvalid ==
    /\ fib.pc = "start"
    /\ fib' = [fib EXCEPT !.pc = "rejected", !.parsed = "Err"]
    /\ UNCHANGED <<overflow_checks, panicked, bookVars, walletVars>>

\* one iteration of `for i in 0..num`: print a; temp = a + b; a = b; b = temp
LoopStep ==
    /\ fib.pc = "loop"
    /\ fib.i < fib.num
    /\ IF AddOverflows(fib.a, fib.b) /\ overflow_checks
       THEN \* "attempt to add with overflow", after the println
            /\ fib' = [fib EXCEPT !.pc = "panicked", !.output = Append(@, fib.a),
                                  !.overflowed = TRUE]
            /\ panicked' = TRUE
       ELSE /\ fib' = [fib EXCEPT !.output = Append(@, fib.a),
                                  !.a = fib.b,
                                  !.b = WrappingAdd(fib.a, fib.b),
                                  !.i = @ + 1,
                                  !.overflowed = @ \/ AddOverflows(fib.a, fib.b)]
            /\ UNCHANGED panicked
    /\ UNCHANGED <<overflow_checks, bookVars, walletVars>>

\* the range 0..num is exhausted: generate_fibonacci and main return
LoopExit ==
    /\ fib.pc = "loop"
    /\ fib.i = fib.num
    /\ fib' = [fib EXCEPT !.pc = "done"]
    /\ UNCHANGED <<overflow_checks, panicked, bookVars, walletVars>>

FibNext ==
    \/ \E n \in 0 .. MaxInput : ReadNumber(n)
    \/ ReadInvalid
    \/ LoopStep
    \/ LoopExit

\* the program is sequential: it takes its next step as long as it has one
FibSpec == FibInit /\ [][FibNext]_vars /\ WF_vars(FibNext)

\* what C14 says of one state of the fibonacci program
FibStateOK ==
    /\ ~fib.overflowed
    /\ ~panicked
    /\ fib.pc \in {"loop", "done"} =>
           fib.parsed = "Ok" /\ fib.input = fib.num /\ fib.num <= MaxTerms
    /\ (fib.parsed = "Ok" /\ fib.input > MaxTerms) => fib.pc = "rejected"
    /\ fib.pc = "rejected" => fib.output = <<>> /\ fib.i = 0
    /\ fib.i <= fib.num
    /\ Len(fib.output) = fib.i
    /\ fib.pc = "done" => fib.i = fib.num
    /\ \A k \in 1 .. Len(fib.output) :
           fib.output[k] = IF k = 1 THEN 0
                           ELSE IF k = 2 THEN 1
                           ELSE fib.output[k - 1] + fib.output[k - 2]
    /\ (fib.pc = "loop" /\ fib.i < fib.num) => ~AddOverflows(fib.a, fib.b)

\* C14: for every accepted number of terms num (0 .. 45) generate_fibonacci
\* ends, after exactly num iterations, having printed F(0) .. F(num - 1) in
\* order, and no a + b leaves the range of i32, the sum of the last iteration
\* included; a parsed number above 45 is rejected before anything is generated.
C14_FibonacciInRange ==
    /\ []FibStateOK
    /\ <>(fib.pc \in {"done", "rejected"})

\* C14's case: 45 terms were generated and the last iteration has computed
\* its look-ahead sum, F(46).
C14_Witness ==
    /\ fib.pc = "done"
    /\ fib.num = MaxTerms
    /\ Len(fib.output) = MaxTerms
    /\ fib.output[MaxTerms] = 701408733
    /\ fib.b = 1836311903

Next ==
    \/ \E t \in OrderType, ap \in OrderArgs : add_order(t, ap[1], ap[2])
    \/ Call_total_orders
    \/ \E t \in OrderType : Call_get_orders_by_type(t)
    \/ \E id \in Ids : Call_find_order_by_id(id)
    \/ \E t \in OrderType : Call_get_total_value_by_type(t)

Spec == Init /\ [][Next]_vars

====
